---------------------------- MODULE Spec2Model ----------------------------
(***************************************************************************)
(* H5P.ThreeSixty (scripts/three-sixty.js, the revision of lines 1-697):   *)
(* the panorama viewer's camera orientation, the PositionControls session  *)
(* state machine of the camera and of every draggable overlay element, and *)
(* the preventDeviceOrientation flag they share.                           *)
(*                                                                         *)
(* Numbers.  The code computes with IEEE doubles.  Here every angle is an  *)
(* integer number of units of 1/2400 rad, and Math.PI is taken as 3.14 rad *)
(* (7536 units).  With that unit every quotient pixels/friction of the     *)
(* code (frictions 400, 300, 10, 800, 600, 20) is an exact integer, and so *)
(* are Math.PI/2, 2*Math.PI, Math.PI*2/3 and toRad(75)/2.                  *)
(***************************************************************************)
EXTENDS Integers, Sequences, FiniteSets

-----------------------------------------------------------------------------
(* Bounds of the model *)

\* overlay elements ever added by add()
MaxElements == 1
\* sessions ever started (successful start() calls), over all controls
MaxSessions == 2
\* largest absolute value of a keyScroller coordinate
MaxScroll == 1

\* most render callbacks requestAnimationFrame holds at once
MaxPending == 2

-----------------------------------------------------------------------------
(* Numbers of the program *)

\* one radian, in the model's angle unit (3 * 800 = 2400, see above)
RadUnit == 3 * 800

\* Math.PI
Pi == (314 * RadUnit) \div 100

\* toRad: degrees to radians (value * (Math.PI / 180))
toRad(value) == (value * Pi) \div 180

maxPitch == Pi \div 2

pi2 == Pi * 2

fieldOfView == 75

\* the default cameraStartPosition of the constructor
defaultYaw == -((Pi * 2) \div 3)

defaultPitch == 0

\* JavaScript's %: the remainder takes the sign of the dividend
JsRem(a, m) == IF a >= 0 THEN a % m ELSE -((-a) % m)

\* a / f for the quotients the inputs below make exact
Quot(a, f) == IF a >= 0 THEN a \div f ELSE -((-a) \div f)

Abs(a) == IF a >= 0 THEN a ELSE -a

-----------------------------------------------------------------------------
(* The controls: the camera's PositionControls and one per element that    *)
(* was added with enableControls                                           *)

cameraControls == 0

ElementIds == 1..MaxElements

Controls == {cameraControls} \cup ElementIds

\* new PositionControls(cssRenderer.domElement, 400, true) for the camera,
\* new PositionControls(element) for an element: friction defaults to 800
friction(c) == IF c = cameraControls THEN 400 ELSE 800

\* invert = invert ? 1 : -1
invert(c) == IF c = cameraControls THEN 1 ELSE -1

\* the friction handed to move() by mouseMove, touchMove and keyDown
mouseFriction(c) == friction(c)

\* touchMove with the factor dividing: friction / 0.75
touchFrictionSlower(c) == (friction(c) * 100) \div 75

\* touchMove: friction * 0.75
touchFriction(c) == (friction(c) * 75) \div 100

keyFriction(c) == (friction(c) * 25) \div 1000

\* the list of keyDown with the Enter key let in
ArrowKeysAndEnter == {37, 100, 38, 104, 39, 102, 40, 98, 13}

\* [37, 100, 38, 104, 39, 102, 40, 98]
ArrowKeys == {37, 100, 38, 104, 39, 102, 40, 98}

\* keyStillDown = null
NoKey == 0

-----------------------------------------------------------------------------
(* Inputs *)

\* event.pageX / pageY of a mouse or touch event; DownX is where a pointer
\* goes down
PageX == {0, 100}

PageY == {0, 100}

DownX == {0}

\* event.which of a mouse event: 1 is the left button
Buttons == {1, 3}

\* event.which of a key event: arrows, numpad arrows, and Enter
KeyCodes == {37, 40, 13}

\* arguments of setCameraPosition and options.cameraStartPosition
YawInputs == {(Pi * 2) \div 3}

PitchInputs == {(maxPitch - toRad(fieldOfView) \div 2) - 600, -maxPitch}

\* startPosition of add()
ElementYaws == {600}

ElementPitches == {0, maxPitch - 300}

-----------------------------------------------------------------------------
(* State *)

VARIABLES
  camera,                    \* camera.rotation: [y, x]
  preventDeviceOrientation,  \* the flag of line 347 (undefined counts as false)
  threeElements,             \* self.threeElements: the elements in add() order
  elements,                  \* per element id: the CSS3DObject made by add()
  controls,                  \* per control: the variables of its PositionControls
  windowListeners,           \* the mousemove/mouseup listeners on window, in order
  notified,                  \* what the last operation triggered on the viewer (self.trigger)
  moved,                     \* the move events the last operation triggered on controls
  called,                    \* the last operation: the handler or method that ran
  nStarts,                   \* successful start() calls so far
  eventWhich,                \* event.which of the last mouse or key event (0: another operation)
  isRendering,               \* self.isRendering (undefined counts as false)
  pending,                   \* the render callbacks requestAnimationFrame holds
  hasFirstRender,            \* hasFirstRender (undefined counts as false)
  drawn,                     \* what the two passes of the last render() drew
  scene,                     \* the meshes of the scene: the segments of each sphere
  sphere,                    \* the mesh the variable sphere holds: its place in scene
  selfElement,               \* self.element: clientWidth and style.height
  rendererSize,              \* the size given to the WebGL renderer
  cssRendererSize            \* the size given to the CSS3D renderer

\* the variables of rendering, of the sphere and of the sizes
viewVars == <<isRendering, pending, hasFirstRender, drawn, scene, sphere,
              selfElement, rendererSize, cssRendererSize>>

vars == <<camera, preventDeviceOrientation, threeElements, elements, controls,
          windowListeners, notified, moved, called, nStarts, eventWhich,
          isRendering, pending, hasFirstRender, drawn, scene, sphere,
          selfElement, rendererSize, cssRendererSize>>

\* the last operation: its name, the control or element it ran on, how it went
Call(op, on, result) == [op |-> op, on |-> on, result |-> result]

\* an H5P.Event as the viewer's subscribers receive it
Event(type, source, data) == [type |-> type, source |-> source, data |-> data]

\* event.data: undefined, {pitch, yaw}, {element}, {elementIndex, yaw, pitch}
NoData == [kind |-> "undefined", yaw |-> 0, pitch |-> 0, elementIndex |-> -1, element |-> -1]

PositionData(yaw, pitch) ==
  [kind |-> "position", yaw |-> yaw, pitch |-> pitch, elementIndex |-> -1, element |-> -1]

ElementData(element) ==
  [kind |-> "element", yaw |-> 0, pitch |-> 0, elementIndex |-> -1, element |-> element]

ElementPositionData(elementIndex, yaw, pitch) ==
  [kind |-> "elementPosition", yaw |-> yaw, pitch |-> pitch,
   elementIndex |-> elementIndex, element |-> -1]

\* the caller of setCameraPosition, as the source of its movestop
Api == -1

\* the closure variables of a new PositionControls (undefined numbers read as 0:
\* none is read before start() or the movestart handler has written it)
NewControls ==
  [controlActive |-> FALSE,
   startPosition |-> [x |-> 0, y |-> 0],
   startAlpha |-> 0, startBeta |-> 0,
   alpha |-> 0, beta |-> 0,
   keyStillDown |-> NoKey,
   keyScroller |-> [x |-> 0, y |-> 0],
   startY |-> 0, startX |-> 0,
   listeners |-> {}]

\* an element id add() has not used yet
NoElement ==
  [added |-> FALSE, enableControls |-> FALSE, threeElementIndex |-> -1,
   position |-> [yaw |-> 0, pitch |-> 0],
   rotation |-> [y |-> 0, x |-> 0],
   inScene |-> FALSE]

\* the controls that exist: the camera's, and those add() has made
Exists(c) ==
  IF c = cameraControls THEN TRUE ELSE elements[c].added /\ elements[c].enableControls

\* options.segments || 4
defaultSegments == 4

\* createSphere(segments): scene.add(new mesh of segments x segments)
createSphere(sc, segments) == Append(sc, segments)

\* a renderer setSize() has not been called on
NoSize == [width |-> 0, height |-> 0]

-----------------------------------------------------------------------------
(* ThreeSixty: camera position *)

\* self.getCurrentPosition
getCurrentPosition == [yaw |-> -camera.y, pitch |-> camera.x]

\* a setCameraPosition that stores the yaw as it is given
setCameraRotationUnsigned(yaw, pitch) == [y |-> yaw, x |-> pitch]

\* self.setCameraPosition: what it stores in camera.rotation
setCameraRotation(yaw, pitch) == [y |-> -yaw, x |-> pitch]

\* the state after the constructor: setCameraPosition(camPos.yaw ?? default, ...)
Init ==
  /\ \E yaw \in YawInputs \cup {defaultYaw}, pitch \in {defaultPitch} :
       /\ camera = setCameraRotation(yaw, pitch)
       /\ notified = <<Event("movestop", Api, PositionData(yaw, pitch))>>
  /\ preventDeviceOrientation = FALSE
  /\ threeElements = <<>>
  /\ elements = [i \in ElementIds |-> NoElement]
  /\ controls = [c \in Controls |-> NewControls]
  /\ windowListeners = <<>>
  /\ moved = <<>>
  /\ called = Call("ThreeSixty", Api, "constructed")
  /\ nStarts = 0
  /\ eventWhich = 0
  /\ isRendering = FALSE
  /\ pending = 0
  /\ hasFirstRender = FALSE
  /\ drawn = <<>>
  /\ scene = createSphere(<<>>, defaultSegments)
  /\ sphere = 1
  /\ selfElement = [clientWidth |-> 0, height |-> 0]
  /\ rendererSize = NoSize
  /\ cssRendererSize = NoSize

SetCameraPosition(yaw, pitch) ==
  /\ IF preventDeviceOrientation
       THEN /\ notified' = <<>>
            /\ called' = Call("setCameraPosition", Api, "prevented")
            /\ UNCHANGED camera
       ELSE /\ camera' = setCameraRotation(yaw, pitch)
            /\ notified' = <<Event("movestop", Api, PositionData(yaw, pitch))>>
            /\ called' = Call("setCameraPosition", Api, "set")
  /\ moved' = <<>>
  /\ UNCHANGED <<preventDeviceOrientation, threeElements, elements, controls,
                 windowListeners, nStarts>>
  /\ eventWhich' = 0
  /\ UNCHANGED viewVars

-----------------------------------------------------------------------------
(* ThreeSixty: elements of the "CSS 3d world" *)

\* a setElementPosition that turns the element and leaves it where it was
setElementRotation(el, yaw, pitch) ==
  [el EXCEPT !.rotation = [y |-> -yaw, x |-> pitch]]

\* setElementPosition(yaw, pitch) of add(): position is kept as the (yaw, pitch)
\* it was computed from, standing for 800 * (sin yaw cos pitch, sin pitch,
\* -cos yaw cos pitch); rotation.y = -yaw, rotation.x = pitch
setElementPosition(el, yaw, pitch) ==
  [el EXCEPT !.position = [yaw |-> yaw, pitch |-> pitch],
             !.rotation = [y |-> -yaw, x |-> pitch]]

\* self.add(element, startPosition, enableControls); the element gets the
\* next unused id
Add(yaw, pitch, enableControls) ==
  /\ \E i \in ElementIds :
       /\ ~elements[i].added
       /\ \A j \in ElementIds : j < i => elements[j].added
       /\ threeElements' = Append(threeElements, i)
       /\ elements' = [elements EXCEPT ![i] =
            setElementPosition(
              [NoElement EXCEPT !.added = TRUE, !.enableControls = enableControls,
                                !.threeElementIndex = Len(threeElements') - 1,
                                !.inScene = TRUE],
              yaw, pitch)]
       /\ controls' = [controls EXCEPT ![i] = NewControls]
       /\ called' = Call("add", i, "added")
  /\ notified' = <<>>
  /\ moved' = <<>>
  /\ UNCHANGED <<camera, preventDeviceOrientation, windowListeners, nStarts>>
  /\ eventWhich' = 0
  /\ UNCHANGED viewVars

\* self.remove(threeElement): cssScene.remove(threeElement)
Remove(i) ==
  /\ elements[i].added
  /\ elements' = [elements EXCEPT ![i].inScene = FALSE]
  /\ notified' = <<>>
  /\ called' = Call("remove", i, "removed")
  /\ moved' = <<>>
  /\ UNCHANGED <<camera, preventDeviceOrientation, threeElements, controls,
                 windowListeners, nStarts>>
  /\ eventWhich' = 0
  /\ UNCHANGED viewVars

\* self.removeElements: remove() each of threeElements, then threeElements = []
RemoveElements ==
  /\ elements' = [i \in ElementIds |->
       IF \E k \in 1..Len(threeElements) : threeElements[k] = i
         THEN [elements[i] EXCEPT !.inScene = FALSE]
         ELSE elements[i]]
  /\ threeElements' = <<>>
  /\ notified' = <<>>
  /\ called' = Call("removeElements", Api, "removed")
  /\ moved' = <<>>
  /\ UNCHANGED <<camera, preventDeviceOrientation, controls, windowListeners, nStarts>>
  /\ eventWhich' = 0
  /\ UNCHANGED viewVars

-----------------------------------------------------------------------------
(* The handlers ThreeSixty registers on a control's events *)

\* movestart handler: the start orientation it stores on the control
\* (camera: camera.rotation.y / .x; element: -rotation.y / rotation.x)
originOrientation(c) ==
  IF c = cameraControls
    THEN [startY |-> camera.y, startX |-> camera.x]
    ELSE [startY |-> -elements[c].rotation.y, startX |-> elements[c].rotation.x]

\* movestart handler: the event it relays with self.trigger(event)
movestartEvent(c) ==
  Event("movestart", c, IF c = cameraControls THEN NoData ELSE ElementData(c))

\* movestop handler: the event it relays with self.trigger(event)
movestopEvent(c) ==
  Event("movestop", c,
        IF c = cameraControls
          THEN NoData
          ELSE ElementPositionData(elements[c].threeElementIndex,
                                   -elements[c].rotation.y, elements[c].rotation.x))

\* a clamp at the poles (maxPitch) that forgets half the field of view
cameraPitchToPole(pitch) ==
  IF pitch > maxPitch THEN maxPitch ELSE IF pitch < -maxPitch THEN -maxPitch ELSE pitch

\* camera move handler: "Set outer bounds for camera so it does not loop around"
cameraPitch(pitch) ==
  LET radsFromCameraCenter == toRad(fieldOfView) \div 2
  IN  IF pitch + radsFromCameraCenter > maxPitch
        THEN maxPitch - radsFromCameraCenter
        ELSE IF pitch - radsFromCameraCenter < -maxPitch
               THEN -maxPitch + radsFromCameraCenter
               ELSE pitch

\* camera move handler: "Keep yaw between 0 and 2PI"
cameraYaw(yaw) ==
  LET rem == JsRem(yaw, pi2)
  IN  IF rem < 0 THEN rem + pi2 ELSE rem

\* camera move handler: camera.rotation after a move event
cameraMove(ctl, alphaDelta, betaDelta) ==
  [y |-> cameraYaw(ctl.startY + alphaDelta),
   x |-> cameraPitch(ctl.startX + betaDelta)]

\* element move handler: setElementPosition(startY + alphaDelta, startX - betaDelta)
elementMove(el, ctl, alphaDelta, betaDelta) ==
  setElementPosition(el, ctl.startY + alphaDelta, ctl.startX - betaDelta)

-----------------------------------------------------------------------------
(* PositionControls *)

\* startRefused with the controlActive test left out
startNeverRefused(ctl) == FALSE

\* start(): "if (controlActive) return false"
startRefused(ctl) == ctl.controlActive

\* start(x, y) on control c, a subscriber of the viewer's movestart vetoing
\* it or not: the result, the control's variables, the flag (the movestart
\* handler sets it before the event is relayed), what was relayed
start(c, x, y, veto) ==
  LET ctl == controls[c]
      seen == [ctl EXCEPT !.startY = originOrientation(c).startY,
                          !.startX = originOrientation(c).startX]
  IN  IF startRefused(ctl)
        THEN [ok |-> FALSE, result |-> "refused", control |-> ctl,
              prevent |-> preventDeviceOrientation, notified |-> <<>>]
        ELSE IF veto
          THEN [ok |-> FALSE, result |-> "vetoed", control |-> seen,
                prevent |-> TRUE,
                notified |-> <<movestartEvent(c)>>]
          ELSE [ok |-> TRUE, result |-> "started",
                control |-> [seen EXCEPT !.startPosition = [x |-> x, y |-> y],
                                         !.startAlpha = ctl.alpha,
                                         !.startBeta = ctl.beta,
                                         !.controlActive = TRUE],
                prevent |-> TRUE,
                notified |-> <<movestartEvent(c)>>]

\* move(): moveEvent.alphaDelta = (x - startPosition.x) / f
alphaDelta(ctl, x, f) == Quot((x - ctl.startPosition.x) * RadUnit, f)

\* move(): moveEvent.betaDelta = (y - startPosition.y) / f
betaDelta(ctl, y, f) == Quot((y - ctl.startPosition.y) * RadUnit, f)

\* move(): "Max 90 degrees up and down on pitch"
ninetyClamp(b) ==
  LET ninety == Pi \div 2
  IN  IF b > ninety THEN ninety ELSE IF b < -ninety THEN -ninety ELSE b

\* move(x, y, f) of control c: the moveEvent it triggers
moveEvent(c, ctl, x, y, f) ==
  [control |-> c, x |-> x, y |-> y, f |-> f,
   alphaDelta |-> alphaDelta(ctl, x, f), betaDelta |-> betaDelta(ctl, y, f)]

\* move(x, y, f): the control's own alpha and beta
move(ctl, x, y, f) ==
  [ctl EXCEPT !.alpha = JsRem(ctl.startAlpha + alphaDelta(ctl, x, f), pi2),
              !.beta = ninetyClamp(JsRem(ctl.startBeta - betaDelta(ctl, y, f), Pi))]

\* end(): controlActive = false (its movestop is movestopEvent)
end(ctl) == [ctl EXCEPT !.controlActive = FALSE]

\* the controls whose listener of the given type is on window, in the order
\* they were added
onWindow(type) ==
  LET of(l) == l.type = type
  IN  SelectSeq(windowListeners, of)

HasWindowListener(c, type) ==
  \E k \in 1..Len(windowListeners) :
    windowListeners[k] = [type |-> type, control |-> c]

\* window.addEventListener(type, handler of c): a listener already there is
\* not added again
addWindowListener(ls, c, type) ==
  IF \E k \in 1..Len(ls) : ls[k] = [type |-> type, control |-> c]
    THEN ls
    ELSE Append(ls, [type |-> type, control |-> c])

\* mouseDown on control c
MouseDown(c, which, x, y, veto) ==
  /\ Exists(c)
  /\ (which = 1 /\ start(c, x, y, veto).ok) => nStarts < MaxSessions
  /\ IF which # 1
       THEN /\ called' = Call("mouseDown", c, "ignored")
            /\ notified' = <<>>
            /\ UNCHANGED <<controls, preventDeviceOrientation, windowListeners, nStarts>>
       ELSE LET s == start(c, x, y, veto)
            IN  /\ called' = Call("mouseDown", c, s.result)
                /\ notified' = s.notified
                /\ controls' = [controls EXCEPT ![c] = s.control]
                /\ preventDeviceOrientation' = s.prevent
                /\ windowListeners' =
                     IF s.ok
                       THEN addWindowListener(
                              addWindowListener(windowListeners, c, "mousemove"),
                              c, "mouseup")
                       ELSE windowListeners
                /\ nStarts' = IF s.ok THEN nStarts + 1 ELSE nStarts
  /\ moved' = <<>>
  /\ UNCHANGED <<camera, threeElements, elements>>
  /\ eventWhich' = which
  /\ UNCHANGED viewVars

\* a mousemove on window: mouseMove of every control listening
MouseMove(x, y) ==
  /\ onWindow("mousemove") # <<>>
  /\ controls' = [c \in Controls |->
       IF HasWindowListener(c, "mousemove")
         THEN move(controls[c], x, y, mouseFriction(c))
         ELSE controls[c]]
  /\ camera' =
       IF HasWindowListener(cameraControls, "mousemove")
         THEN cameraMove(controls[cameraControls],
                         alphaDelta(controls[cameraControls], x, mouseFriction(cameraControls)),
                         betaDelta(controls[cameraControls], y, mouseFriction(cameraControls)))
         ELSE camera
  /\ elements' = [i \in ElementIds |->
       IF HasWindowListener(i, "mousemove")
         THEN elementMove(elements[i], controls[i],
                          alphaDelta(controls[i], x, mouseFriction(i)),
                          betaDelta(controls[i], y, mouseFriction(i)))
         ELSE elements[i]]
  /\ notified' = <<>>
  /\ moved' = [k \in 1..Len(onWindow("mousemove")) |->
       LET c == onWindow("mousemove")[k].control
       IN  moveEvent(c, controls[c], x, y, mouseFriction(c))]
  /\ called' = Call("mouseMove", onWindow("mousemove")[1].control, "moved")
  /\ UNCHANGED <<preventDeviceOrientation, threeElements, windowListeners, nStarts>>
  /\ eventWhich' = 0
  /\ UNCHANGED viewVars

\* a mouseup on window: mouseUp of every control listening, in listener order
MouseUp ==
  /\ onWindow("mouseup") # <<>>
  /\ controls' = [c \in Controls |->
       IF HasWindowListener(c, "mouseup") THEN end(controls[c]) ELSE controls[c]]
  /\ windowListeners' =
       LET stays(l) == ~HasWindowListener(l.control, "mouseup")
       IN  SelectSeq(windowListeners, stays)
  /\ preventDeviceOrientation' = FALSE
  /\ notified' = [k \in 1..Len(onWindow("mouseup")) |->
                    movestopEvent(onWindow("mouseup")[k].control)]
  /\ called' = Call("mouseUp", onWindow("mouseup")[1].control, "ended")
  /\ moved' = <<>>
  /\ UNCHANGED <<camera, threeElements, elements, nStarts>>
  /\ eventWhich' = 0
  /\ UNCHANGED viewVars

\* camera.rotation after control c has triggered a move event
movedCamera(c, ctl, x, y, f) ==
  IF c = cameraControls
    THEN cameraMove(ctl, alphaDelta(ctl, x, f), betaDelta(ctl, y, f))
    ELSE camera

\* the elements after control c has triggered a move event
movedElements(c, ctl, x, y, f) ==
  [i \in ElementIds |->
    IF i = c
      THEN elementMove(elements[i], ctl, alphaDelta(ctl, x, f), betaDelta(ctl, y, f))
      ELSE elements[i]]

\* touchStart on control c
TouchStart(c, x, y, veto) ==
  /\ Exists(c)
  /\ start(c, x, y, veto).ok => nStarts < MaxSessions
  /\ LET s == start(c, x, y, veto)
     IN  /\ called' = Call("touchStart", c, s.result)
         /\ notified' = s.notified
         /\ controls' = [controls EXCEPT ![c] =
              IF s.ok
                THEN [s.control EXCEPT !.listeners = @ \cup {"touchmove", "touchend"}]
                ELSE s.control]
         /\ preventDeviceOrientation' = s.prevent
         /\ nStarts' = IF s.ok THEN nStarts + 1 ELSE nStarts
  /\ moved' = <<>>
  /\ UNCHANGED <<camera, threeElements, elements, windowListeners>>
  /\ eventWhich' = 0
  /\ UNCHANGED viewVars

\* touchMove on control c
TouchMove(c, x, y) ==
  /\ "touchmove" \in controls[c].listeners
  /\ controls' = [controls EXCEPT ![c] = move(@, x, y, touchFriction(c))]
  /\ camera' = movedCamera(c, controls[c], x, y, touchFriction(c))
  /\ elements' = movedElements(c, controls[c], x, y, touchFriction(c))
  /\ notified' = <<>>
  /\ moved' = <<moveEvent(c, controls[c], x, y, touchFriction(c))>>
  /\ called' = Call("touchMove", c, "moved")
  /\ UNCHANGED <<preventDeviceOrientation, threeElements, windowListeners, nStarts>>
  /\ eventWhich' = 0
  /\ UNCHANGED viewVars

\* a touchEnd that leaves its own listener on the element
touchEndForgetful == {"touchmove"}

\* touchEnd: the listeners it removes from the element
touchEndListeners == {"touchmove", "touchend"}

\* touchEnd on control c
TouchEnd(c) ==
  /\ "touchend" \in controls[c].listeners
  /\ controls' = [controls EXCEPT ![c] =
       end([@ EXCEPT !.listeners = @ \ touchEndListeners])]
  /\ preventDeviceOrientation' = FALSE
  /\ notified' = <<movestopEvent(c)>>
  /\ called' = Call("touchEnd", c, "ended")
  /\ moved' = <<>>
  /\ UNCHANGED <<camera, threeElements, elements, windowListeners, nStarts>>
  /\ eventWhich' = 0
  /\ UNCHANGED viewVars

\* keyDown: "Update movement in approperiate direction"
keyScroll(keyScroller, which, inv) ==
  IF which \in {37, 100} THEN [keyScroller EXCEPT !.x = @ + inv]
  ELSE IF which \in {38, 104} THEN [keyScroller EXCEPT !.y = @ + inv]
  ELSE IF which \in {39, 102} THEN [keyScroller EXCEPT !.x = @ - inv]
  ELSE IF which \in {40, 98} THEN [keyScroller EXCEPT !.y = @ - inv]
  ELSE keyScroller

\* keyDown, up to "if (keyStillDown !== event.which) return": the start it
\* tries when no key is down yet
keyStart(c, which, veto) ==
  LET ctl == controls[c]
      s == start(c, ctl.keyScroller.x, ctl.keyScroller.y, veto)
  IN  IF ctl.keyStillDown # NoKey
        THEN [ok |-> FALSE, result |-> IF ctl.keyStillDown = which THEN "repeated" ELSE "otherKey",
              control |-> ctl, prevent |-> preventDeviceOrientation, notified |-> <<>>]
        ELSE IF s.ok
          THEN [s EXCEPT !.control = [s.control EXCEPT !.keyStillDown = which,
                                                       !.listeners = @ \cup {"keyup"}]]
          ELSE s

\* keyDown on control c
KeyDown(c, which, veto) ==
  /\ Exists(c)
  /\ IF which \notin ArrowKeys
       THEN /\ called' = Call("keyDown", c, "ignored")
            /\ notified' = <<>>
            /\ moved' = <<>>
            /\ UNCHANGED <<camera, elements, controls, preventDeviceOrientation, nStarts>>
       ELSE LET s == keyStart(c, which, veto)
                scrolled == [s.control EXCEPT !.keyScroller = keyScroll(@, which, invert(c))]
                x == scrolled.keyScroller.x
                y == scrolled.keyScroller.y
            IN  /\ s.ok => nStarts < MaxSessions
                /\ called' = Call("keyDown", c, s.result)
                /\ notified' = s.notified
                /\ preventDeviceOrientation' = s.prevent
                /\ nStarts' = IF s.ok THEN nStarts + 1 ELSE nStarts
                /\ IF s.control.keyStillDown # which
                     THEN /\ controls' = [controls EXCEPT ![c] = s.control]
                          /\ moved' = <<>>
                          /\ UNCHANGED <<camera, elements>>
                     ELSE /\ Abs(x) <= MaxScroll /\ Abs(y) <= MaxScroll
                          /\ controls' = [controls EXCEPT ![c] = move(scrolled, x, y, keyFriction(c))]
                          /\ camera' = movedCamera(c, scrolled, x, y, keyFriction(c))
                          /\ elements' = movedElements(c, scrolled, x, y, keyFriction(c))
                          /\ moved' = <<moveEvent(c, scrolled, x, y, keyFriction(c))>>
  /\ UNCHANGED <<threeElements, windowListeners>>
  /\ eventWhich' = which
  /\ UNCHANGED viewVars

\* a keyUp that leaves its own listener on the element
keyUpKept == {}

\* keyUp: the listener it removes from the element
keyUpListeners == {"keyup"}

\* keyUp on control c (of any key: event.which is not read)
KeyUp(c, which) ==
  /\ "keyup" \in controls[c].listeners
  /\ controls' = [controls EXCEPT ![c] =
       end([@ EXCEPT !.keyStillDown = NoKey, !.listeners = @ \ keyUpListeners])]
  /\ preventDeviceOrientation' = FALSE
  /\ notified' = <<movestopEvent(c)>>
  /\ called' = Call("keyUp", c, "ended")
  /\ moved' = <<>>
  /\ UNCHANGED <<camera, threeElements, elements, windowListeners, nStarts>>
  /\ eventWhich' = which
  /\ UNCHANGED viewVars

-----------------------------------------------------------------------------
(* ThreeSixty: rendering, the sphere, the size, the device orientation *)

\* render() without its test of self.isRendering
renderNeverStopped(rendering) == FALSE

\* render(): "if (!self.isRendering) return"
renderStopped(rendering) == ~rendering

\* sourceNeedsUpdate as a frame finds it: undefined when the viewer was
\* constructed without it, else what sourceNeedsUpdate(sourceElement) answers
SourceAnswers == {"undefined", "false", "true"}

\* render() marking the texture only when sourceNeedsUpdate says so
needsUpdateWhenAsked(update) == update = "true"

\* render(): the texture is marked for update at the first render and
\* whenever sourceNeedsUpdate is defined and says so
needsUpdate(update) == ~hasFirstRender \/ (update # "undefined" /\ update = "true")

\* render() with a CSS pass that draws the camera as the frame before saw it
renderPassesLagging(update) ==
  <<[renderer |-> "webgl", camera |-> camera, textureUpdated |-> needsUpdate(update),
     sourceNeedsUpdate |-> update],
    [renderer |-> "css", camera |-> IF drawn = <<>> THEN camera ELSE drawn[2].camera,
     textureUpdated |-> FALSE, sourceNeedsUpdate |-> update]>>

\* render(): renderer.render(scene, camera); cssRenderer.render(cssScene, camera)
renderPasses(update) ==
  <<[renderer |-> "webgl", camera |-> camera, textureUpdated |-> needsUpdate(update),
     sourceNeedsUpdate |-> update],
    [renderer |-> "css", camera |-> camera, textureUpdated |-> FALSE,
     sourceNeedsUpdate |-> update]>>

\* render() with self.isRendering = rendering and what is pending = callbacks
\* (requestAnimationFrame(render) adds one); update is one of SourceAnswers
render(rendering, callbacks, update) ==
  IF renderStopped(rendering)
    THEN /\ drawn' = <<>>
         /\ pending' = callbacks
         /\ UNCHANGED hasFirstRender
    ELSE /\ drawn' = renderPasses(update)
         /\ pending' = callbacks + 1
         /\ hasFirstRender' = TRUE

\* self.startRendering()
StartRendering(update) ==
  /\ pending < MaxPending
  /\ isRendering' = TRUE
  /\ render(TRUE, pending, update)
  /\ called' = Call("startRendering", Api, "rendered")
  /\ notified' = <<>>
  /\ moved' = <<>>
  /\ eventWhich' = 0
  /\ UNCHANGED <<camera, preventDeviceOrientation, threeElements, elements, controls,
                 windowListeners, nStarts, scene, sphere, selfElement, rendererSize,
                 cssRendererSize>>

\* self.stopRendering()
StopRendering ==
  /\ isRendering' = FALSE
  /\ called' = Call("stopRendering", Api, "stopped")
  /\ notified' = <<>>
  /\ moved' = <<>>
  /\ eventWhich' = 0
  /\ UNCHANGED <<camera, preventDeviceOrientation, threeElements, elements, controls,
                 windowListeners, nStarts, pending, hasFirstRender, drawn, scene,
                 sphere, selfElement, rendererSize, cssRendererSize>>

\* the browser runs one of the callbacks requestAnimationFrame holds
Frame(update) ==
  /\ pending > 0
  /\ render(isRendering, pending - 1, update)
  /\ called' = Call("render", Api, IF renderStopped(isRendering) THEN "stopped" ELSE "rendered")
  /\ notified' = <<>>
  /\ moved' = <<>>
  /\ eventWhich' = 0
  /\ UNCHANGED <<camera, preventDeviceOrientation, threeElements, elements, controls,
                 windowListeners, nStarts, isRendering, scene, sphere, selfElement,
                 rendererSize, cssRendererSize>>

\* a scene.remove() that leaves the old mesh in the scene
sceneKeep(sc, k) == sc

\* scene.remove(sphere): the scene without the mesh at place k
sceneRemove(sc, k) ==
  [j \in 1..(Len(sc) - 1) |-> IF j < k THEN sc[j] ELSE sc[j + 1]]

\* self.setRenderingQuality(segmentation)
SetRenderingQuality(segmentation) ==
  /\ scene' = createSphere(sceneRemove(scene, sphere), segmentation)
  /\ sphere' = Len(scene')
  /\ called' = Call("setRenderingQuality", segmentation, "rebuilt")
  /\ notified' = <<>>
  /\ moved' = <<>>
  /\ eventWhich' = 0
  /\ UNCHANGED <<camera, preventDeviceOrientation, threeElements, elements, controls,
                 windowListeners, nStarts, isRendering, pending, hasFirstRender, drawn,
                 selfElement, rendererSize, cssRendererSize>>

\* resize() without its test of clientWidth
resizeNeverSkipped(clientWidth) == FALSE

\* resize(): "if (!self.element.clientWidth) return"
resizeSkipped(clientWidth) == clientWidth = 0

\* resize(): clientWidth / ratio, the ratio being 16 / 9
heightOf(clientWidth) == (clientWidth * 9) \div 16

\* self.resize(), the wrapper being clientWidth wide when it is called; the
\* wrapper's clientHeight is the style.height just set
Resize(clientWidth) ==
  /\ IF resizeSkipped(clientWidth)
       THEN /\ selfElement' = [selfElement EXCEPT !.clientWidth = clientWidth]
            /\ called' = Call("resize", Api, "skipped")
            /\ UNCHANGED <<rendererSize, cssRendererSize>>
       ELSE /\ selfElement' = [clientWidth |-> clientWidth, height |-> heightOf(clientWidth)]
            /\ rendererSize' = [width |-> clientWidth, height |-> heightOf(clientWidth)]
            /\ cssRendererSize' = [width |-> clientWidth, height |-> heightOf(clientWidth)]
            /\ called' = Call("resize", Api, "resized")
  /\ notified' = <<>>
  /\ moved' = <<>>
  /\ eventWhich' = 0
  /\ UNCHANGED <<camera, preventDeviceOrientation, threeElements, elements, controls,
                 windowListeners, nStarts, isRendering, pending, hasFirstRender, drawn,
                 scene, sphere>>

\* the line that adds deviceOrientation to window's listeners, uncommented
deviceOrientationHeard == TRUE

\* "// window.addEventListener('deviceorientation', deviceOrientation, false)"
deviceOrientationListening == FALSE

\* deviceOrientation(event): camera.rotation after it, for an event with
\* gamma = 0 on a screen with window.orientation = 0: the quaternion it sets
\* is the rotation of order YXZ by y = toRad(alpha) + getAlpha() and
\* x = toRad(beta) - pi/2 - getBeta()
deviceOrientation(alpha, beta) ==
  IF preventDeviceOrientation
    THEN camera
    ELSE [y |-> toRad(alpha) + controls[cameraControls].alpha,
          x |-> toRad(beta) - Pi \div 2 - controls[cameraControls].beta]

\* the device's sensor reports an orientation to window
DeviceOrientation(alpha, beta) ==
  /\ camera' = IF deviceOrientationListening THEN deviceOrientation(alpha, beta) ELSE camera
  /\ called' = Call("deviceorientation", Api,
                    IF ~deviceOrientationListening THEN "unheard"
                    ELSE IF preventDeviceOrientation THEN "prevented" ELSE "set")
  /\ notified' = <<>>
  /\ moved' = <<>>
  /\ eventWhich' = 0
  /\ UNCHANGED <<preventDeviceOrientation, threeElements, elements, controls,
                 windowListeners, nStarts>>
  /\ UNCHANGED viewVars

-----------------------------------------------------------------------------
(* The specification: the viewer's public methods and the input events on  *)
(* the camera and on every element, with the pointer on one row            *)

PointX == {0, 100}

PointY == {0}

ArrowOrNot == {37, 39, 13}

\* event.alpha and event.beta of a deviceorientation event, in degrees
SensorAngles == {90}

Next ==
  \/ \E yaw \in YawInputs, pitch \in {defaultPitch} : SetCameraPosition(yaw, pitch)
  \/ \E yaw \in ElementYaws, pitch \in {0}, enableControls \in BOOLEAN :
       Add(yaw, pitch, enableControls)
  \/ \E i \in ElementIds : Remove(i)
  \/ RemoveElements
  \/ \E c \in Controls, which \in Buttons, x \in DownX, y \in PointY, veto \in BOOLEAN :
       MouseDown(c, which, x, y, veto)
  \/ \E x \in PointX, y \in PointY : MouseMove(x, y)
  \/ MouseUp
  \/ \E c \in Controls, x \in DownX, y \in PointY, veto \in BOOLEAN : TouchStart(c, x, y, veto)
  \/ \E c \in Controls, x \in PointX, y \in PointY : TouchMove(c, x, y)
  \/ \E c \in Controls : TouchEnd(c)
  \/ \E c \in Controls, which \in ArrowOrNot, veto \in BOOLEAN : KeyDown(c, which, veto)
  \/ \E c \in Controls, which \in ArrowOrNot : KeyUp(c, which)
  \/ \E alpha \in SensorAngles, beta \in SensorAngles : DeviceOrientation(alpha, beta)

Spec == Init /\ [][Next]_vars

-----------------------------------------------------------------------------
(* The camera alone: setCameraPosition and the input events on the camera  *)
(* control, with the pointer anywhere in PageX \X PageY                    *)

NextCamera ==
  \/ \E yaw \in YawInputs, pitch \in PitchInputs : SetCameraPosition(yaw, pitch)
  \/ \E which \in Buttons, x \in DownX, y \in PageY, veto \in BOOLEAN :
       MouseDown(cameraControls, which, x, y, veto)
  \/ \E x \in PageX, y \in PageY : MouseMove(x, y)
  \/ MouseUp
  \/ \E x \in DownX, y \in PageY, veto \in BOOLEAN : TouchStart(cameraControls, x, y, veto)
  \/ \E x \in PageX, y \in PageY : TouchMove(cameraControls, x, y)
  \/ TouchEnd(cameraControls)
  \/ \E which \in KeyCodes, veto \in BOOLEAN : KeyDown(cameraControls, which, veto)
  \/ \E which \in KeyCodes : KeyUp(cameraControls, which)

SpecCamera == Init /\ [][NextCamera]_vars

-----------------------------------------------------------------------------
(* The viewer being rendered: rendering, quality, size and position, with  *)
(* the camera dragged by mouse and elements without controls added; the    *)
(* browser runs every callback requestAnimationFrame holds                 *)

Segments == {4, 8}

ClientWidths == {0, 160}

NextView ==
  \/ \E update \in SourceAnswers : StartRendering(update)
  \/ StopRendering
  \/ \E update \in SourceAnswers : Frame(update)
  \/ \E segmentation \in Segments : SetRenderingQuality(segmentation)
  \/ \E clientWidth \in ClientWidths : Resize(clientWidth)
  \/ \E yaw \in YawInputs, pitch \in {defaultPitch} : SetCameraPosition(yaw, pitch)
  \/ \E yaw \in ElementYaws, pitch \in {0} : Add(yaw, pitch, FALSE)
  \/ \E x \in DownX, y \in PointY, veto \in BOOLEAN :
       MouseDown(cameraControls, 1, x, y, veto)
  \/ \E x \in PointX, y \in PointY : MouseMove(x, y)
  \/ MouseUp

SpecView ==
  Init /\ [][NextView]_vars /\ WF_vars(\E update \in SourceAnswers : Frame(update))

-----------------------------------------------------------------------------
(* The elements alone: add() and the input events on the elements, with    *)
(* the pointer anywhere in PageX \X PageY                                   *)

NextElements ==
  \/ \E yaw \in ElementYaws, pitch \in ElementPitches : Add(yaw, pitch, TRUE)
  \/ \E i \in ElementIds : Remove(i)
  \/ \E c \in ElementIds, which \in Buttons, x \in DownX, y \in PageY, veto \in BOOLEAN :
       MouseDown(c, which, x, y, veto)
  \/ \E x \in PageX, y \in PageY : MouseMove(x, y)
  \/ MouseUp
  \/ \E c \in ElementIds, x \in DownX, y \in PageY, veto \in BOOLEAN : TouchStart(c, x, y, veto)
  \/ \E c \in ElementIds, x \in PageX, y \in PageY : TouchMove(c, x, y)
  \/ \E c \in ElementIds : TouchEnd(c)
  \/ \E c \in ElementIds, which \in KeyCodes, veto \in BOOLEAN : KeyDown(c, which, veto)
  \/ \E c \in ElementIds, which \in KeyCodes : KeyUp(c, which)

SpecElements == Init /\ [][NextElements]_vars

-----------------------------------------------------------------------------
(* Rendering alone: the viewer's methods and the callbacks the browser runs *)

NextRender ==
  \/ \E update \in SourceAnswers : StartRendering(update)
  \/ StopRendering
  \/ \E update \in SourceAnswers : Frame(update)
  \/ \E yaw \in YawInputs, pitch \in PitchInputs : SetCameraPosition(yaw, pitch)
  \/ \E segmentation \in Segments : SetRenderingQuality(segmentation)
  \/ \E clientWidth \in ClientWidths : Resize(clientWidth)

SpecRender ==
  Init /\ [][NextRender]_vars /\ WF_vars(\E update \in SourceAnswers : Frame(update))

-----------------------------------------------------------------------------
(* The sensor among the sessions: mouse and touch sessions of the camera   *)
(* and of the elements, and the deviceorientation events of the device     *)

NextSensor ==
  \/ \E yaw \in ElementYaws, pitch \in {0} : Add(yaw, pitch, TRUE)
  \/ \E yaw \in YawInputs, pitch \in {defaultPitch} : SetCameraPosition(yaw, pitch)
  \/ \E c \in Controls, x \in DownX, y \in PointY, veto \in BOOLEAN :
       MouseDown(c, 1, x, y, veto)
  \/ \E x \in PointX, y \in PointY : MouseMove(x, y)
  \/ MouseUp
  \/ \E c \in Controls, x \in DownX, y \in PointY, veto \in BOOLEAN : TouchStart(c, x, y, veto)
  \/ \E c \in Controls : TouchEnd(c)
  \/ \E alpha \in SensorAngles, beta \in SensorAngles : DeviceOrientation(alpha, beta)

SpecSensor == Init /\ [][NextSensor]_vars

-----------------------------------------------------------------------------
(* The buttons and the keys: mouseDown of any button and keyDown and keyUp *)
(* of any key on the camera and on the elements, no subscriber vetoing     *)

NextInputs ==
  \/ \E yaw \in ElementYaws, pitch \in {0} : Add(yaw, pitch, TRUE)
  \/ \E c \in Controls, which \in Buttons, x \in DownX, y \in PointY :
       MouseDown(c, which, x, y, FALSE)
  \/ MouseUp
  \/ \E c \in Controls, which \in ArrowOrNot : KeyDown(c, which, FALSE)
  \/ \E c \in Controls, which \in ArrowOrNot : KeyUp(c, which)

SpecInputs == Init /\ [][NextInputs]_vars

-----------------------------------------------------------------------------
(* The sessions: what starts and ends one on the camera and on the         *)
(* elements, by mouse, touch and key, with the removal of elements in      *)
(* between, the pointer staying where it went down and only a mouseDown    *)
(* being vetoed                                                            *)

NextSessions ==
  \/ \E yaw \in ElementYaws, pitch \in {0} : Add(yaw, pitch, TRUE)
  \/ \E i \in ElementIds : Remove(i)
  \/ RemoveElements
  \/ \E c \in Controls, x \in DownX, y \in PointY, veto \in BOOLEAN :
       MouseDown(c, 1, x, y, veto)
  \/ MouseUp
  \/ \E c \in Controls, x \in DownX, y \in PointY : TouchStart(c, x, y, FALSE)
  \/ \E c \in Controls : TouchEnd(c)
  \/ \E c \in Controls : KeyDown(c, 37, FALSE)
  \/ \E c \in Controls : KeyUp(c, 37)

SpecSessions == Init /\ [][NextSessions]_vars

-----------------------------------------------------------------------------
(* The places of the elements: add(), remove() and the drag of an element  *)
(* by mouse, with the pointer anywhere in PageX \X PageY                    *)

NextPlaces ==
  \/ \E yaw \in ElementYaws, pitch \in ElementPitches : Add(yaw, pitch, TRUE)
  \/ \E i \in ElementIds : Remove(i)
  \/ \E c \in ElementIds, x \in DownX, y \in PageY : MouseDown(c, 1, x, y, FALSE)
  \/ \E x \in PageX, y \in PageY : MouseMove(x, y)
  \/ MouseUp

SpecPlaces == Init /\ [][NextPlaces]_vars

-----------------------------------------------------------------------------
(* The claims *)

Active(c) == controls[c].controlActive

ActiveControls == {c \in Controls : Active(c)}

\* bound = pi/2 - fieldOfView/2, the field of view being 75 degrees
PitchBound == Pi \div 2 - ((75 * Pi) \div 180) \div 2

Clamped(v, bound) == IF v > bound THEN bound ELSE IF v < -bound THEN -bound ELSE v

\* a and b are congruent modulo 2 pi
Congruent(a, b) == (a - b) % (2 * Pi) = 0

\* C1: in every reachable state at most one control session is Active over
\* the camera control and all element controls (a start attempt on another
\* control while one is Active fails and leaves that control Idle).
C1_AtMostOneActive == Cardinality(ActiveControls) <= 1

\* C2: in every reachable state, if any control session is Active then
\* preventDeviceOrientation is true.
C2_ActiveImpliesFlag == ActiveControls # {} => preventDeviceOrientation

\* C3: a setCameraPosition call made while a camera or element session is
\* Active is a no-op: it is prevented and notifies nothing.
C3_SetIgnoredWhileDragging ==
  (called.op = "setCameraPosition" /\ ActiveControls # {})
    => (called.result = "prevented" /\ notified = <<>>)

\* C4: a vetoed start attempt mutates nothing: the session stays Idle, no
\* move/end listener is attached, and preventDeviceOrientation keeps the
\* value it had before the attempt.
C4_VetoMutatesNothing ==
  [][called'.result = "vetoed"
       => /\ ~controls'[called'.on].controlActive
          /\ controls'[called'.on].listeners = controls[called'.on].listeners
          /\ windowListeners' = windowListeners
          /\ preventDeviceOrientation' = preventDeviceOrientation]_vars

\* the step is a start attempt: a primary-button mouseDown, a touchStart or
\* an arrow keyDown that is not the repeat of the key held down
StartAttempted ==
  /\ called'.op \in {"mouseDown", "touchStart", "keyDown"}
  /\ called'.result \notin {"ignored", "repeated"}

\* a start attempt on a control whose session is Active fails, relays no
\* movestart, attaches no listener and leaves the session's origin
\* (startPosition, startAlpha, startBeta, startY, startX) and the flag as
\* they were
RefusedWhileActive ==
  (StartAttempted /\ controls[called'.on].controlActive)
    => /\ called'.result \in {"refused", "otherKey"}
       /\ notified' = <<>>
       /\ moved' = <<>>
       /\ UNCHANGED <<controls, windowListeners, preventDeviceOrientation, camera, elements>>

\* the step is the start attempt that follows the end of the same control's
\* session
AttemptAfterEnd ==
  /\ called.result = "ended"
  /\ StartAttempted
  /\ called'.on = called.on

Started == called'.result = "started" /\ controls'[called'.on].controlActive

\* C5 as claimed: a start attempt on a control whose session is Active fails
\* and changes nothing, and once that session has ended the next start
\* attempt on the control succeeds.
C5_RestartAlwaysSucceeds ==
  [][RefusedWhileActive /\ (AttemptAfterEnd => Started)]_vars

\* C5: a start attempt on a control whose session is Active fails and changes
\* nothing, and once that session has ended the next start attempt on the
\* control succeeds unless a subscriber vetoes its movestart.
C5_RefusedWhileActive ==
  [][RefusedWhileActive
     /\ ((AttemptAfterEnd /\ called'.result # "vetoed") => Started)]_vars

\* C5 happens: a start attempt has just been refused on an Active control
C5_Witness ==
  /\ called.result = "refused"
  /\ controls[called.on].controlActive

\* C5 happens: the camera's second session has started, its first one ended
C5_WitnessRestart ==
  /\ called.result = "started"
  /\ called.on = cameraControls
  /\ nStarts = 2
  /\ \A i \in ElementIds : ~elements[i].added

\* C6: the yaw getCurrentPosition() reports lies in [0, 2 pi).
C6_YawInRange == 0 <= getCurrentPosition.yaw /\ getCurrentPosition.yaw < 2 * Pi

\* C7: after the constructor or setCameraPosition has stored a position, the
\* pitch getCurrentPosition() reports lies in [-bound, bound].
C7_SetClampsPitch ==
  (called.result \in {"constructed", "set"})
    => (-PitchBound <= getCurrentPosition.pitch /\ getCurrentPosition.pitch <= PitchBound)

\* the move events the last operation triggered on the camera control
CameraMoves == {k \in 1..Len(moved) : moved[k].control = cameraControls}

\* C8: every move of a camera drag sets the camera pitch to origin pitch +
\* betaDelta clamped to [-bound, bound]: kept when inside or exactly at the
\* bound, set to the bound when beyond.
C8_MoveClampsPitch ==
  \A k \in CameraMoves :
    camera.x = Clamped(controls[cameraControls].startX + moved[k].betaDelta, PitchBound)

\* C8 happens: a camera move has asked for a pitch beyond the bound
C8_Witness ==
  \E k \in CameraMoves :
    /\ controls[cameraControls].startX + moved[k].betaDelta > PitchBound
    /\ camera.x = PitchBound

\* C8 happens: a camera move by a pointer displacement has asked for a pitch
\* exactly at the bound
C8_WitnessAtBound ==
  \E k \in CameraMoves :
    /\ moved[k].betaDelta # 0
    /\ controls[cameraControls].startX + moved[k].betaDelta = PitchBound
    /\ camera.x = PitchBound

\* the camera's first drag, by mouse, began at yaw 2 pi / 3 and pitch 0 and
\* the pointer is now 100 px to the right of where it went down
DragScenario ==
  /\ called.op = "mouseMove"
  /\ nStarts = 1
  /\ controls[cameraControls].startY = -((2 * Pi) \div 3)
  /\ controls[cameraControls].startX = 0
  /\ \E k \in CameraMoves :
       /\ moved[k].f = 400
       /\ moved[k].x - controls[cameraControls].startPosition.x = 100
       /\ moved[k].y - controls[cameraControls].startPosition.y = 0

\* C9: constructed at yaw 2 pi / 3 and pitch 0, after a camera mouse drag of
\* +100 px horizontally the viewer reports a yaw congruent to
\* 2 pi / 3 + 0.25 and a pitch of 0.
C9_DragScenario ==
  DragScenario
    => /\ Congruent(getCurrentPosition.yaw, (2 * Pi) \div 3 + RadUnit \div 4)
       /\ getCurrentPosition.pitch = 0

\* C10: the movestop the viewer relays when a camera session ends carries the
\* yaw and pitch getCurrentPosition() returns.
C10_CameraStopCarriesPosition ==
  \A k \in 1..Len(notified) :
    (notified[k].type = "movestop" /\ notified[k].source = cameraControls)
      => /\ notified[k].data.kind # "undefined"
         /\ notified[k].data.yaw = getCurrentPosition.yaw
         /\ notified[k].data.pitch = getCurrentPosition.pitch

\* the step is a keyUp, on a control whose keyboard session is Active, of a
\* key other than the one that started the session
OtherKeyUp ==
  /\ called'.op = "keyUp"
  /\ controls[called'.on].controlActive
  /\ controls[called'.on].keyStillDown # NoKey
  /\ eventWhich' # controls[called'.on].keyStillDown

\* C11: while the arrow key that started a keyboard session is held, the
\* keyUp of any other key does not end the session, relays no movestop and
\* does not clear preventDeviceOrientation.
C11_OnlyInitiatingKeyEnds ==
  [][OtherKeyUp
       => /\ controls'[called'.on].controlActive
          /\ controls'[called'.on].keyStillDown = controls[called'.on].keyStillDown
          /\ notified' = <<>>
          /\ preventDeviceOrientation' = preventDeviceOrientation]_vars

\* the four arrow keys and the numeric keypad's four
EightArrowCodes == {37, 38, 39, 40, 98, 100, 102, 104}

\* the step is an input to ignore: a keyDown of a key that is no arrow key,
\* a keyDown of an arrow key other than the one that started the control's
\* Active keyboard session, or a mouseDown of a button that is not the primary
IgnoredInput ==
  \/ /\ called'.op = "keyDown"
     /\ eventWhich' \notin EightArrowCodes
  \/ /\ called'.op = "keyDown"
     /\ eventWhich' \in EightArrowCodes
     /\ controls[called'.on].controlActive
     /\ controls[called'.on].keyStillDown \notin {NoKey, eventWhich'}
  \/ /\ called'.op = "mouseDown"
     /\ eventWhich' # 1

\* C12: an ignored input leaves every control's session, origin and
\* keyScroller, the flag, the camera and the elements as they were, attaches
\* no listener and notifies nothing.
C12_IgnoredInputsChangeNothing ==
  [][IgnoredInput
       => /\ UNCHANGED <<controls, preventDeviceOrientation, camera, elements,
                         windowListeners>>
          /\ notified' = <<>>
          /\ moved' = <<>>]_vars

\* C12 happens: during a keyboard session a keyDown of another arrow key has
\* been ignored
C12_Witness ==
  /\ called = Call("keyDown", called.on, "otherKey")
  /\ eventWhich \in EightArrowCodes
  /\ controls[called.on].controlActive
  /\ controls[called.on].keyStillDown \notin {NoKey, eventWhich}

\* C12 happens: a keyDown of Enter has been ignored during a session
C12_WitnessNoArrow ==
  /\ called = Call("keyDown", called.on, "ignored")
  /\ eventWhich = 13
  /\ controls[called.on].controlActive

\* C12 happens: a mouseDown of the secondary button has been ignored during
\* a session
C12_WitnessButton ==
  /\ called = Call("mouseDown", called.on, "ignored")
  /\ eventWhich = 3
  /\ controls[called.on].controlActive

\* C13: while the camera's session is Active, a deviceorientation event
\* leaves camera.rotation as it was, whatever the camera's and the elements'
\* sessions have done to preventDeviceOrientation before it.
C13_SensorLeavesDraggedCamera ==
  [][(called'.op = "deviceorientation" /\ controls[cameraControls].controlActive)
       => camera' = camera]_vars

\* C13 happens: a deviceorientation event has come during the camera's
\* session, after the end of an element's session had cleared the flag
C13_Witness ==
  /\ called.op = "deviceorientation"
  /\ controls[cameraControls].controlActive
  /\ ~preventDeviceOrientation

\* C14: a render callback that runs while rendering is stopped draws neither
\* pass and asks for no further callback; so once rendering is stopped,
\* either it is started again or eventually no render callback is pending.
C14_StoppedFrameNotRescheduled ==
  /\ [][(called'.op = "render" /\ ~isRendering)
          => (drawn' = <<>> /\ pending' = pending - 1)]_vars
  /\ (~isRendering ~> (isRendering \/ pending = 0))

\* C14 happens: the last pending callback has run while rendering was
\* stopped, and has drawn nothing
C14_Witness ==
  /\ called = Call("render", Api, "stopped")
  /\ ~isRendering
  /\ hasFirstRender
  /\ drawn = <<>>
  /\ pending = 0

\* C15: the two passes of a render() draw the same camera.rotation, and it
\* is the camera.rotation the handlers that ran before that render() left.
C15_BothPassesSameCamera ==
  /\ drawn # <<>> => (Len(drawn) = 2 /\ drawn[1].camera = drawn[2].camera)
  /\ called.result = "rendered" => (drawn[1].camera = camera /\ drawn[2].camera = camera)

\* C15 happens: a frame has been drawn during a camera drag that had moved
\* the camera since the frame before
C15_Witness ==
  /\ called = Call("render", Api, "rendered")
  /\ controls[cameraControls].controlActive
  /\ camera.y # controls[cameraControls].startY
  /\ drawn[1].renderer = "webgl" /\ drawn[1].camera = camera
  /\ drawn[2].renderer = "css" /\ drawn[2].camera = camera

\* C16: resize() called while the wrapper's clientWidth is 0 leaves the
\* wrapper's height and the sizes of both renderers as they were.
C16_ResizeAtZeroWidth ==
  [][(called'.op = "resize" /\ selfElement'.clientWidth = 0)
       => /\ selfElement'.height = selfElement.height
          /\ rendererSize' = rendererSize
          /\ cssRendererSize' = cssRendererSize]_vars

\* C16 happens: resize() has run at width 0 on a viewer that had been given
\* a size before
C16_Witness ==
  /\ called.op = "resize"
  /\ selfElement.clientWidth = 0
  /\ selfElement.height > 0
  /\ rendererSize.width > 0
  /\ cssRendererSize.width > 0

\* C17: the scene always holds exactly one sphere; setRenderingQuality
\* leaves in it the one sphere built with the segments it was given, and
\* leaves the camera, the elements and their placement, self.isRendering
\* and preventDeviceOrientation as they were.
C17_QualityRebuildsOnlySphere ==
  [][/\ Len(scene') = 1
     /\ called'.op = "setRenderingQuality"
          => /\ scene' = <<called'.on>>
             /\ scene'[sphere'] = called'.on
             /\ UNCHANGED <<camera, threeElements, elements, isRendering,
                            preventDeviceOrientation>>]_vars

\* C17 happens: the quality has been set, to other segments than the
\* constructor's, on a rendering viewer that holds an element
C17_Witness ==
  /\ called.op = "setRenderingQuality"
  /\ called.on # defaultSegments
  /\ scene = <<called.on>>
  /\ isRendering
  /\ threeElements # <<>>

\* the move events the last operation triggered on the controls of elements
ElementMoves == {k \in 1..Len(moved) : moved[k].control \in ElementIds}

\* C18: after every move of an element's drag the element's pitch lies in
\* [-pi/2, pi/2].
C18_ElementPitchInRange ==
  \A k \in ElementMoves :
    /\ -(Pi \div 2) <= elements[moved[k].control].rotation.x
    /\ elements[moved[k].control].rotation.x <= Pi \div 2

\* element i has been added with controls and then removed
Removed(i) ==
  elements[i].added /\ elements[i].enableControls /\ ~elements[i].inScene

\* the operations that are input events on a control
InputOps ==
  {"mouseDown", "mouseMove", "mouseUp", "touchStart", "touchMove", "touchEnd",
   "keyDown", "keyUp"}

\* C19: once remove() has been called on an element with controls, also
\* during its drag, that element's session is Idle and holds no listener,
\* and no later input event on it starts a session, sets
\* preventDeviceOrientation or notifies anything.
C19_RemoveReleasesSession ==
  [][\A i \in ElementIds :
       Removed(i)'
         => /\ ~controls'[i].controlActive
            /\ controls'[i].listeners = {}
            /\ \A k \in 1..Len(windowListeners') : windowListeners'[k].control # i
            /\ (Removed(i) /\ called'.op \in InputOps /\ called'.on = i)
                 => /\ notified' = <<>>
                    /\ moved' = <<>>
                    /\ preventDeviceOrientation' = preventDeviceOrientation]_vars

\* the yaw and pitch of what control c moves: the camera or its element
PositionOf(c) ==
  IF c = cameraControls
    THEN getCurrentPosition
    ELSE [yaw |-> -elements[c].rotation.y, pitch |-> elements[c].rotation.x]

\* C20: every move a control makes during its session reaches the viewer's
\* subscribers as a move notification that carries the new yaw and pitch.
C20_MoveNotified ==
  \A k \in 1..Len(moved) :
    \E n \in 1..Len(notified) :
      /\ notified[n].type = "move"
      /\ notified[n].source = moved[k].control
      /\ notified[n].data.kind # "undefined"
      /\ notified[n].data.yaw = PositionOf(moved[k].control).yaw
      /\ notified[n].data.pitch = PositionOf(moved[k].control).pitch

\* pointer coordinates to compare the deltas of
SamplePositions == {-100, 0, 1, 40, 100}

\* C21: for a control in its session, of two pointer positions the one
\* farther from the session's origin gets the angular delta of strictly
\* larger magnitude, on both axes and with the mouse's and the touch's
\* friction; and a position off the origin gets a strictly larger delta
\* magnitude from a touch move than from a mouse move.
C21_FrictionMonotone ==
  \A c \in Controls :
    controls[c].controlActive =>
      LET ctl == controls[c]
          dx(p) == Abs(p - ctl.startPosition.x)
          dy(p) == Abs(p - ctl.startPosition.y)
      IN  \A p, q \in SamplePositions :
            /\ \A f \in {mouseFriction(c), touchFriction(c)} :
                 /\ dx(p) < dx(q) => Abs(alphaDelta(ctl, p, f)) < Abs(alphaDelta(ctl, q, f))
                 /\ dy(p) < dy(q) => Abs(betaDelta(ctl, p, f)) < Abs(betaDelta(ctl, q, f))
            /\ dx(p) # 0 => Abs(alphaDelta(ctl, p, touchFriction(c)))
                               > Abs(alphaDelta(ctl, p, mouseFriction(c)))
            /\ dy(p) # 0 => Abs(betaDelta(ctl, p, touchFriction(c)))
                               > Abs(betaDelta(ctl, p, mouseFriction(c)))

\* C21 happens: a touch move away from the origin has given a larger delta
\* than a mouse move to the same place would
C21_Witness ==
  \E k \in 1..Len(moved) :
    LET c == moved[k].control
    IN  /\ controls[c].controlActive
        /\ moved[k].f = touchFriction(c)
        /\ moved[k].x # controls[c].startPosition.x
        /\ Abs(moved[k].alphaDelta) > Abs(alphaDelta(controls[c], moved[k].x, mouseFriction(c)))

\* C22: at most one render callback is pending at any time, whatever the
\* order of startRendering(), stopRendering() and the callbacks that run.
C22_OneFramePending == pending <= 1

\* the move and end listeners control c has attached, on window and on its
\* element
ListenersOf(c) ==
  controls[c].listeners
    \cup {windowListeners[k].type : k \in {j \in 1..Len(windowListeners) :
                                            windowListeners[j].control = c}}

\* C23: a control that is Idle has no move or end listener attached; one
\* that is Active has exactly the listeners of the device that started its
\* session; and no listener is on window twice.
C23_ScopedListeners ==
  /\ \A c \in Controls :
       IF controls[c].controlActive
         THEN /\ ListenersOf(c) \in {{"mousemove", "mouseup"}, {"touchmove", "touchend"},
                                     {"keyup"}}
              /\ ListenersOf(c) = {"keyup"} <=> controls[c].keyStillDown # NoKey
         ELSE ListenersOf(c) = {}
  /\ \A j, k \in 1..Len(windowListeners) :
       j # k => windowListeners[j] # windowListeners[k]

\* C23 happens: the second session of a control has ended, the first having
\* been started by another device, and nothing is left attached
C23_Witness ==
  /\ called = Call("touchEnd", called.on, "ended")
  /\ nStarts = 2
  /\ \A c \in Controls : ~controls[c].controlActive /\ ListenersOf(c) = {}

\* C24: a frame that renders marks the texture for update exactly when it
\* is the first frame the viewer renders or sourceNeedsUpdate was supplied
\* and answers true; the mark is there when the first of the two passes
\* draws.
C24_TextureRefreshPolicy ==
  [][(called'.op \in {"startRendering", "render"} /\ called'.result = "rendered")
       => /\ Len(drawn') = 2
          /\ drawn'[1].renderer = "webgl"
          /\ drawn'[1].textureUpdated
               <=> (~hasFirstRender \/ drawn'[1].sourceNeedsUpdate = "true")]_vars

\* C24 happens: the first frame has been rendered by a viewer constructed
\* without sourceNeedsUpdate, and its texture was marked
C24_Witness ==
  /\ called = Call("startRendering", Api, "rendered")
  /\ Len(drawn) = 2
  /\ drawn[1].sourceNeedsUpdate = "undefined"
  /\ drawn[1].textureUpdated

\* C25: the position and the rotation of every element come from one and
\* the same (yaw, pitch): the position is the point at yaw = -rotation.y and
\* pitch = rotation.x, whatever has been added, dragged or removed.
C25_PositionFollowsRotation ==
  \A i \in ElementIds :
    elements[i].added =>
      /\ elements[i].position.yaw = -elements[i].rotation.y
      /\ elements[i].position.pitch = elements[i].rotation.x

\* C25 happens: a drag has just moved an element away, in yaw and in pitch,
\* from where add() had put it
C25_Witness ==
  \E k \in ElementMoves :
    /\ elements[moved[k].control].position.yaw \notin ElementYaws
    /\ elements[moved[k].control].position.pitch \notin ElementPitches
    /\ elements[moved[k].control].rotation.y = -elements[moved[k].control].position.yaw

\* C26: the constructor's start position is what getCurrentPosition()
\* reports before any input, and a setCameraPosition(yaw, pitch) called
\* with no session active and the flag clear is carried out and leaves
\* getCurrentPosition() = (yaw, pitch), the position its movestop names.
C26_SetGetRoundTrip ==
  /\ called.result = "constructed"
       => /\ getCurrentPosition.yaw = notified[1].data.yaw
          /\ getCurrentPosition.pitch = notified[1].data.pitch
  /\ [][(/\ called'.op = "setCameraPosition"
          /\ ActiveControls = {}
          /\ ~preventDeviceOrientation)
           => /\ called'.result = "set"
              /\ notified' # <<>>
              /\ getCurrentPosition'.yaw = notified'[1].data.yaw
              /\ getCurrentPosition'.pitch = notified'[1].data.pitch]_vars

\* C26 happens: after a session on the camera has ended, setCameraPosition
\* has put the camera at a yaw that is not zero and at the lowest pitch
C26_Witness ==
  /\ called = Call("setCameraPosition", Api, "set")
  /\ nStarts > 0
  /\ ActiveControls = {}
  /\ getCurrentPosition.yaw \in YawInputs
  /\ getCurrentPosition.pitch = -maxPitch

\* the events of the given type that the last operation relayed from source
Relayed(type, source) ==
  {k \in 1..Len(notified) : notified[k].type = type /\ notified[k].source = source}

\* C27 as it stands: every movestop the viewer triggers comes from a control
\* that closes a session its movestart has opened.
C27_EveryStopClosesASession ==
  \A k \in 1..Len(notified) :
    notified[k].type = "movestop" => notified[k].source \in Controls

\* C27, amended: a movestop of the viewer is either the one an accepted
\* setCameraPosition() (the constructor's included) triggers itself, or it
\* is relayed from a control whose session is open and closes with it; a
\* session opens only with a movestart relayed from its control and closes
\* only with a movestop relayed from it.
C27_StopsAreBracketed ==
  /\ [](Relayed("movestop", Api) # {}
          => (called.op \in {"ThreeSixty", "setCameraPosition"}
                /\ called.result \in {"constructed", "set"}))
  /\ [][\A c \in Controls :
          /\ Relayed("movestop", c)' # {}
               => (Active(c) /\ ~Active(c)' /\ Cardinality(Relayed("movestop", c)') = 1)
          /\ (~Active(c) /\ Active(c)') => Relayed("movestart", c)' # {}
          /\ (Active(c) /\ ~Active(c)') => Relayed("movestop", c)' # {}]_vars

\* C27 happens: a keyUp has closed the second session of the camera and its
\* movestop has been relayed
C27_Witness ==
  /\ called = Call("keyUp", cameraControls, "ended")
  /\ nStarts = 2
  /\ Relayed("movestop", cameraControls) # {}
  /\ ~Active(cameraControls)

\* C28: the elementIndex that the movestop of an element's drag carries is
\* the place of that element in threeElements when the movestop is relayed.
C28_StopNamesDraggedElement ==
  \A k \in 1..Len(notified) :
    (notified[k].type = "movestop" /\ notified[k].source \in ElementIds)
      => /\ notified[k].data.elementIndex + 1 \in 1..Len(threeElements)
         /\ threeElements[notified[k].data.elementIndex + 1] = notified[k].source

=============================================================================
